---- MODULE Spec2Model ----
(***************************************************************************)
(* The `spwig dev` live theme synchronisation engine                       *)
(* (packages/cli/src/commands/dev.ts, with the global handlers of          *)
(* packages/cli/src/cli.ts) as a state machine.                            *)
(*                                                                         *)
(* The engine runs on one Node.js event loop: a step of the model is what  *)
(* runs between two suspension points (an await on the file system, on the *)
(* network, on the watcher, or a timer).  A statement sequence without an  *)
(* await in between is one atomic action.  process.exit ends the process:  *)
(* no action of the process is enabled afterwards.                         *)
(*                                                                         *)
(* Five specifications share the module.   Spec (FairSpec with the awaits  *)
(* of cleanup settling) is the engine while theme files are saved,         *)
(* UnlinkSpec the engine while they are also removed.  WalkSpec is         *)
(* collectThemeFiles applied to the theme directories the developer can    *)
(* have made, BuildSpec the construction of a FileChange from a file's     *)
(* name and bytes, ReportSpec the report made of a settled request.        *)
(***************************************************************************)
EXTENDS Integers, FiniteSets, Sequences, TLC

\* ------------------------------------------------------------- bounds
\* Number of theme files the model follows.
MaxPaths == 2
\* Number of saves of theme files after the initial collection.
MaxSaves == 2
\* Granularity of the model's time: one Tick is TickMs milliseconds.
TickMs == 100

\* Number of entries (files, directories, others) of the theme directory.
MaxEntries == 4
\* Longest synced and errors lists of a reported SyncResult.
MaxListed == 3
\* Longest file content, in bytes, a FileChange is built from.
MaxBytes == 3

\* ---------------------------------------------------------- constants
\* dev.ts:151  const DEBOUNCE_MS = 200
DEBOUNCE_MS == 200

Paths == 1..MaxPaths

\* The three callers of cleanup(): the two signal handlers and the catch block.
Signals == {"SIGINT", "SIGTERM"}
Cleaners == Signals \cup {"catch"}

VARIABLES
  pc,              \* where devCommand's body is suspended
  exitCode,        \* -1 while the process runs, else the code given to process.exit
  session,         \* let session: DevSession | null
  watcher,         \* let watcher: FSWatcher | null  ("null", "open", "closed")
  error,           \* the error caught by devCommand's catch block: [step, msg]
  uncaught,        \* which global handler of cli.ts ended the process
  cl,              \* per caller of cleanup(): where that invocation is suspended
  reply,           \* the last result devCommand handled: [step, outcome]
  connectsSent,    \* requests issued to the remote, by endpoint
  syncsSent,
  validatesSent,
  disconnectsSent,
  pushesSent,      \* per path: sync requests issued by debounced flushes
  disk,            \* per path: the version of the content on disk
  dirty,           \* per path: the watcher has a change to report
  gone,            \* per path: "no", or the file was removed: "pending" while the
                   \* watcher has the removal to report, else "yes"
  batch,           \* per path: the version read by collectThemeFiles (-1: none)
  remote,          \* per path: the version the remote received last (-1: none)
  pendingChanges,  \* Map<string, Timeout>: per path the timer handle (0: no entry)
  timers,          \* the armed timers of the event loop
  reads,           \* fs.readFile calls in flight, one per running flush
  pushes,          \* per-change sync requests in flight
  evCount,         \* per path: number of add/change events handled (timer handles)
  bursts,          \* per path: events that found no pendingChanges entry
  flushes,         \* per path: timer callbacks run
  log,             \* the last line reported by a flush or by disconnectSession
  nlog,            \* per path: number of lines logged by flushes
  sinceEvt,        \* per path: ms since the last event, capped at DEBOUNCE_MS
  tree,            \* the entries of the theme directory collectThemeFiles walks
  files,           \* the FileChange[] collectThemeFiles returned
  collected,       \* collectThemeFiles has returned
  fname,           \* the name of a file a FileChange is built from
  fbytes,          \* the bytes fs.readFile returned for it
  built,           \* <<>>, or the FileChanges the initial sync and a flush build from it
  result,          \* a settled request whose outcome is reported
  report           \* the report made of it

lifeVars == <<pc, exitCode, session, watcher, error, uncaught, cl>>
respVars == <<reply>>
sentVars == <<connectsSent, syncsSent, validatesSent, disconnectsSent, pushesSent>>
fileVars == <<disk, dirty, gone, batch, remote>>
flushVars == <<pendingChanges, timers, reads, pushes, evCount, bursts, flushes,
               log, nlog, sinceEvt>>
engineVars == <<lifeVars, respVars, sentVars, fileVars, flushVars>>
walkVars == <<tree, files, collected>>
buildVars == <<fname, fbytes, built>>
reportVars == <<result, report>>
pureVars == <<walkVars, buildVars, reportVars>>
vars == <<engineVars, pureVars>>

Running == exitCode = -1

NoError == [step |-> "none", msg |-> "none"]

\* The engine right after devCommand is called.
EngineInit ==
  /\ pc = "start"
  /\ exitCode = -1
  /\ session = "null"
  /\ watcher = "null"
  /\ error = NoError
  /\ uncaught = "none"
  /\ cl = [w \in Cleaners |-> "idle"]
  /\ reply = [step |-> "none", outcome |-> "none"]
  /\ connectsSent = 0
  /\ syncsSent = 0
  /\ validatesSent = 0
  /\ disconnectsSent = 0
  /\ pushesSent = [p \in Paths |-> 0]
  /\ disk = [p \in Paths |-> 0]
  /\ dirty = [p \in Paths |-> FALSE]
  /\ gone = [p \in Paths |-> "no"]
  /\ batch = [p \in Paths |-> -1]
  /\ remote = [p \in Paths |-> -1]
  /\ pendingChanges = [p \in Paths |-> 0]
  /\ timers = {}
  /\ reads = {}
  /\ pushes = {}
  /\ evCount = [p \in Paths |-> 0]
  /\ bursts = [p \in Paths |-> 0]
  /\ flushes = [p \in Paths |-> 0]
  /\ log = "none"
  /\ nlog = [p \in Paths |-> 0]
  /\ sinceEvt = [p \in Paths |-> DEBOUNCE_MS]

\* No directory walked and no FileChange built yet.
NoWalk == tree = {} /\ files = <<>> /\ collected = FALSE
NoBuild == fname = <<>> /\ fbytes = <<>> /\ built = <<>>

\* No result reported yet.
NothingReported ==
  /\ result = [op |-> "none", outcome |-> "none", synced |-> 0, errors |-> 0]
  /\ report = [level |-> "none", text |-> "none", synced |-> -1, errors |-> -1,
               lines |-> 0]

Init == EngineInit /\ NoWalk /\ NoBuild /\ NothingReported

\* ------------------------------------------------------------ cleanup
\* A caller of cleanup() that returns without calling process.exit.
NoExit(who) == -1

\* The exit code each caller of cleanup() passes to process.exit afterwards:
\* 0 in the signal handlers (dev.ts:65, 70), 1 in the catch block (dev.ts:218).
ExitCodeOf(who) == IF who = "catch" THEN 1 ELSE 0

\* A variant of cleanup() that lacks the `if (session)` test before disconnecting.
CleanupDisconnectsAlways(s) == TRUE

\* cleanup(), dev.ts:56: `if (session)`.
CleanupDisconnects(s) == s # "null"

\* cleanup() from its call to its first pending await (dev.ts:52-59), followed by
\* the caller's process.exit when nothing is awaited.  watcher.close() marks the
\* watcher closed at once (no further events) and resolves later; the fetch of
\* disconnectSession is issued before its await.
CleanupBegin(who) ==
  IF watcher # "null"
  THEN /\ cl' = [cl EXCEPT ![who] = "closing"]
       /\ watcher' = "closed"
       /\ UNCHANGED <<disconnectsSent, exitCode>>
  ELSE IF CleanupDisconnects(session)
  THEN /\ cl' = [cl EXCEPT ![who] = "disconnecting"]
       /\ disconnectsSent' = disconnectsSent + 1
       /\ UNCHANGED <<watcher, exitCode>>
  ELSE /\ cl' = [cl EXCEPT ![who] = "done"]
       /\ exitCode' = ExitCodeOf(who)
       /\ UNCHANGED <<watcher, disconnectsSent>>

\* process.on('SIGINT' | 'SIGTERM', async () => { await cleanup(); process.exit(0) })
Signal(s) ==
  /\ Running
  /\ cl[s] = "idle"
  /\ CleanupBegin(s)
  /\ UNCHANGED <<pc, session, error, uncaught, respVars, connectsSent, syncsSent,
                 validatesSent, pushesSent, fileVars, flushVars>>
  /\ UNCHANGED pureVars

\* `await watcher.close()` settles for one cleanup invocation.  Resolved: cleanup
\* goes on to `if (session)`.  Rejected: cleanup throws; in a signal handler the
\* rejection is unhandled (cli.ts:90-93), in the catch block it leaves devCommand
\* and reaches the dev action's catch (cli.ts:79-82); both call process.exit(1).
CloseDone(who, ok) ==
  /\ Running
  /\ cl[who] = "closing"
  /\ IF ok
     THEN IF CleanupDisconnects(session)
          THEN /\ cl' = [cl EXCEPT ![who] = "disconnecting"]
               /\ disconnectsSent' = disconnectsSent + 1
               /\ UNCHANGED <<exitCode, uncaught>>
          ELSE /\ cl' = [cl EXCEPT ![who] = "done"]
               /\ exitCode' = ExitCodeOf(who)
               /\ UNCHANGED <<disconnectsSent, uncaught>>
     ELSE /\ cl' = [cl EXCEPT ![who] = "threw"]
          /\ uncaught' = IF who = "catch" THEN "actionCatch" ELSE "unhandledRejection"
          /\ exitCode' = 1
          /\ UNCHANGED disconnectsSent
  /\ UNCHANGED <<pc, session, watcher, error, respVars, connectsSent,
                 syncsSent, validatesSent, pushesSent, fileVars, flushVars>>
  /\ UNCHANGED pureVars

\* The fetch of disconnectSession settles (dev.ts:297-310): whatever the outcome,
\* disconnectSession returns normally and the caller calls process.exit.
DisconnectOutcomes == {"ok", "http_err", "net_err"}

\* dev.ts:300-309: spinner.succeed('Disconnected') once the awaited fetch has
\* resolved, whatever the status of the response; spinner.warn when it rejected.
DisconnectLog(o) ==
  IF o = "net_err" THEN "Failed to disconnect cleanly" ELSE "Disconnected"

DisconnectDone(who, o) ==
  /\ Running
  /\ cl[who] = "disconnecting"
  /\ cl' = [cl EXCEPT ![who] = "done"]
  /\ log' = DisconnectLog(o)
  /\ exitCode' = ExitCodeOf(who)
  /\ UNCHANGED <<pc, session, watcher, error, uncaught, respVars, sentVars,
                 fileVars, pendingChanges, timers, reads, pushes, evCount, bursts,
                 flushes, nlog, sinceEvt>>
  /\ UNCHANGED pureVars

\* } catch (error) { spinner.fail(...); await cleanup(); ...; process.exit(1) }
EnterCatch(step, msg) ==
  /\ pc' = "catch"
  /\ error' = [step |-> step, msg |-> msg]
  /\ CleanupBegin("catch")

\* ------------------------------------------------------------ startup
\* manifest.json when devCommand looks for it: present and parsable, absent,
\* present but not accessible, present but unreadable or not JSON.
ManifestOutcomes == {"ok", "missing", "inaccessible", "unreadable"}

\* fileExists, dev.ts:393-400: fs.access resolves, or its rejection is caught.
fileExists(o) == o \notin {"missing", "inaccessible"}

\* A manifest check that reports a missing manifest and goes on to the prompt.
ManifestCheckNoExit(o) ==
  /\ Running
  /\ pc = "start"
  /\ reply' = [step |-> "manifest", outcome |-> o]
  /\ IF o = "unreadable"
     THEN EnterCatch("manifest", "parse")
     ELSE /\ pc' = "prompt"
          /\ UNCHANGED <<exitCode, error, cl, watcher, disconnectsSent>>
  /\ UNCHANGED <<session, uncaught, connectsSent, syncsSent,
                 validatesSent, pushesSent, fileVars, flushVars>>
  /\ UNCHANGED pureVars

\* dev.ts:74-86: fileExists(manifest.json), else report and process.exit(1);
\* then read and parse it.
ManifestCheck(o) ==
  /\ Running
  /\ pc = "start"
  /\ reply' = [step |-> "manifest", outcome |-> o]
  /\ CASE ~fileExists(o) ->
            /\ exitCode' = 1
            /\ UNCHANGED <<pc, error, cl, watcher, disconnectsSent>>
       [] o = "ok" ->
            /\ pc' = "prompt"
            /\ UNCHANGED <<exitCode, error, cl, watcher, disconnectsSent>>
       [] OTHER -> EnterCatch("manifest", "parse")
  /\ UNCHANGED <<session, uncaught, connectsSent, syncsSent,
                 validatesSent, pushesSent, fileVars, flushVars>>
  /\ UNCHANGED pureVars

\* connectToShop, dev.ts:228-287: the credentials are read, then the connect
\* request is issued.
Credentials ==
  /\ Running
  /\ pc = "prompt"
  /\ pc' = "connecting"
  /\ connectsSent' = connectsSent + 1
  /\ UNCHANGED <<exitCode, session, watcher, error, uncaught, cl, respVars,
                 syncsSent, validatesSent, disconnectsSent, pushesSent,
                 fileVars, flushVars>>
  /\ UNCHANGED pureVars

\* What the connect request can come back with: a success carrying a session; a
\* non-success status whose body is JSON with an `error` text, JSON without one,
\* or not JSON (with a status text, or with an empty one); a failed fetch.
ConnectOutcomes ==
  {"ok", "json_error", "json_noerror", "text_status", "empty_status", "net_err"}

\* dev.ts:289-292:
\*   const error = await response.json().catch(() => ({ error: response.statusText }))
\*   throw new Error(error.error || `Connection failed: ${response.status}`)
ConnectErrorMessage(o) ==
  CASE o = "json_error" -> "remote message"
    [] o = "json_noerror" -> "Connection failed: status"
    [] o = "text_status" -> "status text"
    [] o = "empty_status" -> "Connection failed: status"
    [] OTHER -> "fetch failed"

\* A connect step that sends the connect request once more after a failure.
ConnectResponseRetryOnce(o) ==
  /\ Running
  /\ pc = "connecting"
  /\ reply' = [step |-> "connect", outcome |-> o]
  /\ IF o = "ok"
     THEN /\ session' = "token"
          /\ pc' = "collecting"
          /\ UNCHANGED <<exitCode, watcher, error, cl, disconnectsSent, connectsSent>>
     ELSE IF connectsSent < 2
     THEN /\ connectsSent' = connectsSent + 1
          /\ UNCHANGED <<pc, session, exitCode, watcher, error, cl, disconnectsSent>>
     ELSE /\ EnterCatch("connect", ConnectErrorMessage(o))
          /\ UNCHANGED <<session, connectsSent>>
  /\ UNCHANGED <<uncaught, syncsSent, validatesSent, pushesSent, fileVars, flushVars>>
  /\ UNCHANGED pureVars

\* A connect step that reports a failed connect and goes on without a session.
ConnectResponseNonFatal(o) ==
  /\ Running
  /\ pc = "connecting"
  /\ reply' = [step |-> "connect", outcome |-> o]
  /\ session' = IF o = "ok" THEN "token" ELSE session
  /\ pc' = "collecting"
  /\ UNCHANGED <<exitCode, watcher, error, cl, disconnectsSent>>
  /\ UNCHANGED <<uncaught, connectsSent, syncsSent,
                 validatesSent, pushesSent, fileVars, flushVars>>
  /\ UNCHANGED pureVars

\* dev.ts:94-95 with connectToShop's tail, dev.ts:289-294.
ConnectResponse(o) ==
  /\ Running
  /\ pc = "connecting"
  /\ reply' = [step |-> "connect", outcome |-> o]
  /\ IF o = "ok"
     THEN /\ session' = "token"
          /\ pc' = "collecting"
          /\ UNCHANGED <<exitCode, watcher, error, cl, disconnectsSent>>
     ELSE /\ EnterCatch("connect", ConnectErrorMessage(o))
          /\ UNCHANGED session
  /\ UNCHANGED <<uncaught, connectsSent, syncsSent,
                 validatesSent, pushesSent, fileVars, flushVars>>
  /\ UNCHANGED pureVars

\* A startup that does not await the initial sync request before validating.
CollectNoAwait(ok) ==
  /\ Running
  /\ pc = "collecting"
  /\ IF ok
     THEN /\ batch' = disk
          /\ syncsSent' = syncsSent + 1
          /\ validatesSent' = validatesSent + 1
          /\ pc' = "validating"
          /\ UNCHANGED <<exitCode, watcher, error, cl, disconnectsSent>>
     ELSE /\ EnterCatch("collect", "read failed")
          /\ UNCHANGED <<batch, syncsSent, validatesSent>>
  /\ UNCHANGED <<session, uncaught, respVars, connectsSent,
                 pushesSent, disk, dirty, gone, remote, flushVars>>
  /\ UNCHANGED pureVars

\* The theme files are collected (dev.ts:99, 312-346) and the initial sync request
\* is issued with them as one batch (dev.ts:100, 349-356).
Collect(ok) ==
  /\ Running
  /\ pc = "collecting"
  /\ IF ok
     THEN /\ batch' = disk
          /\ syncsSent' = syncsSent + 1
          /\ pc' = "syncing"
          /\ UNCHANGED <<exitCode, watcher, error, cl, disconnectsSent>>
     ELSE /\ EnterCatch("collect", "read failed")
          /\ UNCHANGED <<batch, syncsSent>>
  /\ UNCHANGED <<session, uncaught, respVars, connectsSent, validatesSent,
                 pushesSent, disk, dirty, gone, remote, flushVars>>
  /\ UNCHANGED pureVars

\* What a sync request can come back with: a SyncResult with success = true, a
\* SyncResult with success = false, a non-success HTTP status, a failed fetch
\* (network error, timeout), a body that is not the JSON of a SyncResult.
SyncOutcomes == {"ok", "inband", "http_err", "net_err", "malformed"}

\* A syncFiles that also throws on a SyncResult with success = false.
SyncThrowsOnRejection(o) == o # "ok"

\* syncFiles, dev.ts:348-364: the awaited fetch rejects, `!response.ok` throws,
\* response.json() rejects; a parsed SyncResult is returned whatever its fields.
SyncThrows(o) == o \in {"http_err", "net_err", "malformed"}

\* The remote applies a batch it answers with a SyncResult.
SyncApplied(o) == o \in {"ok", "inband"}

\* dev.ts:100-111: the initial sync request settles; its result is reported and
\* the validate request is issued.
SyncResponse(o) ==
  /\ Running
  /\ pc = "syncing"
  /\ reply' = [step |-> "sync", outcome |-> o]
  /\ IF SyncThrows(o)
     THEN /\ EnterCatch("sync", "sync failed")
          /\ UNCHANGED <<validatesSent, remote>>
     ELSE /\ remote' = IF SyncApplied(o) THEN batch ELSE remote
          /\ validatesSent' = validatesSent + 1
          /\ pc' = "validating"
          /\ UNCHANGED <<exitCode, watcher, error, cl, disconnectsSent>>
  /\ UNCHANGED <<session, uncaught, connectsSent, syncsSent, pushesSent, disk,
                 dirty, gone, batch, flushVars>>
  /\ UNCHANGED pureVars

\* watcher = chokidar.watch(...), dev.ts:134-147, the handlers of dev.ts:193-200
\* and `await new Promise(() => {})`, dev.ts:206; a throw of chokidar.watch
\* leaves watcher null.
WatchStart(ok) ==
  IF ok
  THEN /\ watcher' = "open"
       /\ pc' = "watching"
       /\ UNCHANGED <<exitCode, error, cl, disconnectsSent>>
  ELSE EnterCatch("watch", "watch failed")

\* What the validate request can come back with.
ValidateOutcomes == {"valid", "invalid", "http_err", "net_err", "malformed"}

\* A validateTheme that also throws on a negative validation.
ValidateThrowsOnInvalid(o) == o # "valid"

\* validateTheme, dev.ts:366-391.
ValidateThrows(o) == o \in {"http_err", "net_err", "malformed"}

\* dev.ts:111-131: the validate request settles; its result is reported; with
\* options.open the browser is opened (awaited), else the watcher is started.
ValidateResponse(o, open, w) ==
  /\ Running
  /\ pc = "validating"
  /\ reply' = [step |-> "validate", outcome |-> o]
  /\ IF ValidateThrows(o)
     THEN EnterCatch("validate", "validation request failed")
     ELSE IF open
     THEN /\ pc' = "opening"
          /\ UNCHANGED <<exitCode, watcher, error, cl, disconnectsSent>>
     ELSE WatchStart(w)
  /\ UNCHANGED <<session, uncaught, connectsSent, syncsSent, validatesSent,
                 pushesSent, fileVars, flushVars>>
  /\ UNCHANGED pureVars

\* `await open(previewUrl)` settles, dev.ts:129-131; then the watcher is started.
OpenDone(ok, w) ==
  /\ Running
  /\ pc = "opening"
  /\ IF ok
     THEN WatchStart(w)
     ELSE EnterCatch("open", "open failed")
  /\ UNCHANGED <<session, uncaught, respVars, connectsSent, syncsSent,
                 validatesSent, pushesSent, fileVars, flushVars>>
  /\ UNCHANGED pureVars

\* The watcher emits 'error': no 'error' listener is registered (dev.ts:193-200),
\* so the emit throws and the error reaches process.on('uncaughtException'),
\* cli.ts:85-88, which calls process.exit(1).
WatcherError ==
  /\ Running
  /\ watcher = "open"
  /\ uncaught' = "uncaughtException"
  /\ exitCode' = 1
  /\ UNCHANGED <<pc, session, watcher, error, cl, respVars, sentVars,
                 fileVars, flushVars>>
  /\ UNCHANGED pureVars

\* ----------------------------------------------------------- watching
Min(a, b) == IF a < b THEN a ELSE b
Max(a, b) == IF a < b THEN b ELSE a

RECURSIVE SumTo(_, _)
SumTo(f, n) == IF n = 0 THEN 0 ELSE f[n] + SumTo(f, n - 1)

\* Every save makes a new version, so the versions on disk count the saves.
Saves == SumTo(disk, MaxPaths)

\* The developer saves a file (or creates it again once its removal has been
\* reported).  An open watcher will report it ('add' or 'change'); a save
\* made while no watcher is open is never reported (ignoreInitial: true,
\* dev.ts:142).  Versions number the saves that follow the initial collection:
\* what was saved before it is the content it reads, version 0.
Save(p) ==
  /\ Running
  /\ batch[p] >= 0
  /\ Saves < MaxSaves
  /\ gone[p] # "pending"
  /\ disk' = [disk EXCEPT ![p] = disk[p] + 1]
  /\ dirty' = [dirty EXCEPT ![p] = dirty[p] \/ watcher = "open"]
  /\ gone' = [gone EXCEPT ![p] = "no"]
  /\ UNCHANGED <<lifeVars, respVars, sentVars, batch, remote, flushVars>>
  /\ UNCHANGED pureVars

\* The developer removes a file.  An open watcher will report it ('unlink').
Remove(p) ==
  /\ Running
  /\ batch[p] >= 0
  /\ gone[p] = "no"
  /\ gone' = [gone EXCEPT ![p] = IF watcher = "open" THEN "pending" ELSE "yes"]
  /\ UNCHANGED <<lifeVars, respVars, sentVars, disk, dirty, batch, remote, flushVars>>
  /\ UNCHANGED pureVars

\* An 'unlink' handler that sends a request for the removed path.
UnlinkSendsDelete(p) == [pushesSent EXCEPT ![p] = pushesSent[p] + 1]

\* The requests sent per path once the 'unlink' handler has run, dev.ts:196-200:
\* the handler sends none (`// TODO: Send delete event to shop`).
UnlinkRequests(p) == pushesSent

\* The 'unlink' handler, dev.ts:196-200: the watcher reports the removal of p,
\* after the earlier events of p; the handler logs 'deleted' and leaves
\* pendingChanges and the timers alone.
Unlink(p) ==
  /\ Running
  /\ watcher = "open"
  /\ gone[p] = "pending"
  /\ ~dirty[p]
  /\ gone' = [gone EXCEPT ![p] = "yes"]
  /\ log' = "deleted"
  /\ pushesSent' = UnlinkRequests(p)
  /\ UNCHANGED <<lifeVars, respVars, connectsSent, syncsSent, validatesSent,
                 disconnectsSent, disk, dirty, batch, remote, pendingChanges,
                 timers, reads, pushes, evCount, bursts, flushes, nlog, sinceEvt>>
  /\ UNCHANGED pureVars

\* A handleChange that does not clear the path's existing timeout.
KeepExisting(p) == timers

\* A handleChange that clears every pending timeout, whatever its path.
ClearAll(p) == {}

\* dev.ts:157-160: clearTimeout(pendingChanges.get(relativePath)).
ClearExisting(p) == {t \in timers : ~(t.path = p /\ t.id = pendingChanges[p])}

\* handleChange, dev.ts:153-165 and 190: the watcher reports 'add' or 'change'
\* for p; the path's timer is replaced by a new one of DEBOUNCE_MS.
WatchEvent(p) ==
  /\ Running
  /\ watcher = "open"
  /\ dirty[p]
  /\ dirty' = [dirty EXCEPT ![p] = FALSE]
  /\ evCount' = [evCount EXCEPT ![p] = evCount[p] + 1]
  /\ timers' = ClearExisting(p) \cup
                 {[path |-> p, id |-> evCount[p] + 1, left |-> DEBOUNCE_MS,
                   ev |-> disk[p]]}
  /\ pendingChanges' = [pendingChanges EXCEPT ![p] = evCount[p] + 1]
  /\ bursts' = [bursts EXCEPT ![p] = IF pendingChanges[p] = 0 THEN bursts[p] + 1
                                     ELSE bursts[p]]
  /\ sinceEvt' = [sinceEvt EXCEPT ![p] = 0]
  /\ UNCHANGED <<lifeVars, respVars, sentVars, disk, gone, batch, remote, reads,
                 pushes, flushes, log, nlog>>
  /\ UNCHANGED pureVars

\* TickMs milliseconds pass.
Tick ==
  /\ Running
  /\ \E t \in timers : t.left > 0
  /\ timers' = {[t EXCEPT !.left = Max(0, t.left - TickMs)] : t \in timers}
  /\ sinceEvt' = [p \in Paths |-> Min(DEBOUNCE_MS, sinceEvt[p] + TickMs)]
  /\ UNCHANGED <<lifeVars, respVars, sentVars, fileVars, pendingChanges, reads,
                 pushes, evCount, bursts, flushes, log, nlog>>
  /\ UNCHANGED pureVars

\* The timer callback starts, dev.ts:163-167: the path's entry is deleted and the
\* file read is started.
TimerFire(t) ==
  /\ Running
  /\ t \in timers
  /\ t.left = 0
  /\ timers' = timers \ {t}
  /\ pendingChanges' = [pendingChanges EXCEPT ![t.path] = 0]
  /\ flushes' = [flushes EXCEPT ![t.path] = flushes[t.path] + 1]
  /\ reads' = reads \cup {[path |-> t.path, id |-> t.id, ev |-> t.ev]}
  /\ UNCHANGED <<lifeVars, respVars, sentVars, fileVars, pushes, evCount, bursts,
                 log, nlog, sinceEvt>>
  /\ UNCHANGED pureVars

\* A try block that covers the file read only.
CaughtReadOnly(kind) == kind = "read_failed"

\* The try/catch of the timer callback, dev.ts:166-189, covers the read, the
\* push and the handling of its result.
Caught(kind) == TRUE

\* The line a flush logs, dev.ts:180-188.
FlushLog(kind) ==
  CASE kind = "ok" -> "synced"
    [] kind = "inband" -> "failed"
    [] OTHER -> "read error"

\* The end of a flush with outcome `kind`: a line is logged; a failure the try
\* block did not cover would be an unhandled rejection (cli.ts:90-93).
FlushEnd(p, kind) ==
  /\ log' = FlushLog(kind)
  /\ nlog' = [nlog EXCEPT ![p] = nlog[p] + 1]
  /\ IF kind \in {"ok", "inband"} \/ Caught(kind)
     THEN UNCHANGED <<exitCode, uncaught>>
     ELSE /\ exitCode' = 1
          /\ uncaught' = "unhandledRejection"

\* dev.ts:167: the content is what fs.readFile finds on disk during the flush.
FlushContent(r) == disk[r.path]

\* `await fs.readFile(filePath)` settles, dev.ts:167-178.  Read: the FileChange
\* is built from the content now on disk and the sync request is issued.
\* Failed (file gone or unreadable): the catch logs.
ReadDone(r, ok) ==
  /\ Running
  /\ r \in reads
  /\ ok => gone[r.path] = "no"
  /\ reads' = reads \ {r}
  /\ IF ok /\ session # "null"
     THEN /\ pushes' = pushes \cup
                 {[path |-> r.path, id |-> r.id, ver |-> FlushContent(r),
                   ev |-> r.ev, st |-> "sent"]}
          /\ pushesSent' = [pushesSent EXCEPT ![r.path] = pushesSent[r.path] + 1]
          /\ UNCHANGED <<log, nlog, exitCode, uncaught>>
     ELSE /\ FlushEnd(r.path, "read_failed")
          /\ UNCHANGED <<pushes, pushesSent>>
  /\ UNCHANGED <<pc, session, watcher, error, cl, respVars, connectsSent,
                 syncsSent, validatesSent, disconnectsSent, fileVars,
                 pendingChanges, timers, evCount, bursts, flushes, sinceEvt>>
  /\ UNCHANGED pureVars

\* A per-change sync request reaches the remote, which takes its content.
PushArrive(x) ==
  /\ Running
  /\ x \in pushes
  /\ x.st = "sent"
  /\ pushes' = (pushes \ {x}) \cup {[x EXCEPT !.st = "recv"]}
  /\ remote' = [remote EXCEPT ![x.path] = x.ver]
  /\ UNCHANGED <<lifeVars, respVars, sentVars, disk, dirty, gone, batch,
                 pendingChanges, timers, reads, evCount, bursts, flushes, log, nlog,
                 sinceEvt>>
  /\ UNCHANGED pureVars

\* A per-change sync request settles, dev.ts:178-189.  A SyncResult (or a body
\* that is not one) answers a request the remote took; a non-success status
\* answers one it refused; the fetch can fail before or after the remote took it.
PushDone(x, o) ==
  /\ Running
  /\ x \in pushes
  /\ o \in {"ok", "inband", "malformed"} => x.st = "recv"
  /\ o = "http_err" => x.st = "sent"
  /\ pushes' = pushes \ {x}
  /\ FlushEnd(x.path, o)
  /\ UNCHANGED <<pc, session, watcher, error, cl, respVars, sentVars,
                 fileVars, pendingChanges, timers, reads, evCount, bursts, flushes,
                 sinceEvt>>
  /\ UNCHANGED pureVars

\* The event loop runs a due timer, or a settled read or request.
TimerFires == \E t \in timers : TimerFire(t)
ReadSettles == \E r \in reads, ok \in BOOLEAN : ReadDone(r, ok)
PushArrives == \E x \in pushes : PushArrive(x)
PushSettles == \E x \in pushes, o \in SyncOutcomes : PushDone(x, o)

Next ==
  \/ \E s \in Signals : Signal(s)
  \/ \E w \in Cleaners, ok \in BOOLEAN : CloseDone(w, ok)
  \/ \E w \in Cleaners, o \in DisconnectOutcomes : DisconnectDone(w, o)
  \/ \E o \in ManifestOutcomes : ManifestCheck(o)
  \/ Credentials
  \/ \E o \in ConnectOutcomes : ConnectResponse(o)
  \/ \E ok \in BOOLEAN : Collect(ok)
  \/ \E o \in SyncOutcomes : SyncResponse(o)
  \/ \E o \in ValidateOutcomes, open \in BOOLEAN, w \in BOOLEAN :
        ValidateResponse(o, open, w)
  \/ \E ok \in BOOLEAN, w \in BOOLEAN : OpenDone(ok, w)
  \/ WatcherError
  \/ \E p \in Paths : Save(p)
  \/ \E p \in Paths : WatchEvent(p)
  \/ Tick
  \/ TimerFires
  \/ ReadSettles
  \/ PushArrives
  \/ PushSettles

Spec == Init /\ [][Next]_vars

\* The awaits of cleanup() settle: watcher.close() resolves or rejects
\* (dev.ts:54), the fetch of disconnectSession resolves or rejects (dev.ts:300).
CloseSettles == \E w \in Cleaners, ok \in BOOLEAN : CloseDone(w, ok)
DisconnectSettles == \E w \in Cleaners, o \in DisconnectOutcomes : DisconnectDone(w, o)

\* The engine when every await of cleanup() eventually settles.
FairSpec == Spec /\ WF_vars(CloseSettles) /\ WF_vars(DisconnectSettles)

\* The engine in a theme directory whose files are also removed.
Removes == \E p \in Paths : Remove(p)
Unlinks == \E p \in Paths : Unlink(p)

UnlinkNext == Next \/ Removes \/ Unlinks

UnlinkSpec == Init /\ [][UnlinkNext]_vars

\* ------------------------------------------------- building a FileChange
\* File names and paths are sequences of characters.
\* dev.ts:44  const BINARY_EXTENSIONS = ['.png', '.jpg', '.jpeg', '.webp',
\*                                       '.woff', '.woff2', '.ico', '.gif']
BINARY_EXTENSIONS ==
  { <<".", "p", "n", "g">>, <<".", "j", "p", "g">>, <<".", "j", "p", "e", "g">>,
    <<".", "w", "e", "b", "p">>, <<".", "w", "o", "f", "f">>,
    <<".", "w", "o", "f", "f", "2">>, <<".", "i", "c", "o">>,
    <<".", "g", "i", "f">> }

\* String.prototype.toLowerCase, on the letters the model's names use.
LowerChar(c) ==
  CASE c = "A" -> "a"
    [] c = "P" -> "p"
    [] c = "N" -> "n"
    [] c = "G" -> "g"
    [] OTHER -> c

toLowerCase(s) == [i \in 1..Len(s) |-> LowerChar(s[i])]

\* The index of the last occurrence of character c in s, 0 when there is none.
LastIndexOf(s, c) ==
  LET at == {i \in 1..Len(s) : s[i] = c}
  IN IF at = {} THEN 0 ELSE CHOOSE i \in at : \A j \in at : j <= i

\* path.extname: the last path component from its last '.' on; empty when it
\* has no '.', when its only '.' is its first character, and for "..".
extname(p) ==
  LET base == SubSeq(p, LastIndexOf(p, "/") + 1, Len(p))
      dot == LastIndexOf(base, ".")
  IN IF dot <= 1 \/ base = <<".", ".">>
     THEN <<>>
     ELSE SubSeq(base, dot, Len(base))

\* A classification that compares the extension without lower-casing it.
IsBinaryCaseSensitive(p) == extname(p) \in BINARY_EXTENSIONS

\* dev.ts:168-169 and 331-332:
\*   const ext = path.extname(...).toLowerCase()
\*   const isBinary = BINARY_EXTENSIONS.includes(ext)
IsBinary(p) == toLowerCase(extname(p)) \in BINARY_EXTENSIONS

\* Buffer.toString('utf-8'): the code points of the bytes; a byte that starts no
\* well-formed sequence decodes to U+FFFD.  One- and two-byte sequences are
\* decoded; the lead bytes of longer ones (0xE0..0xF4) are not in ByteAlphabet.
RECURSIVE Utf8ToString(_)
Utf8ToString(b) ==
  IF b = <<>> THEN <<>>
  ELSE IF b[1] < 128 THEN <<b[1]>> \o Utf8ToString(Tail(b))
  ELSE IF b[1] \in 194..223 /\ Len(b) >= 2 /\ b[2] \in 128..191
       THEN <<(b[1] - 192) * 64 + (b[2] - 128)>>
              \o Utf8ToString(SubSeq(b, 3, Len(b)))
  ELSE <<65533>> \o Utf8ToString(Tail(b))

\* Buffer.toString('base64'): per three bytes four 6-bit digits; 64 stands for
\* the padding character '='.
RECURSIVE Base64ToString(_)
Base64ToString(b) ==
  CASE Len(b) = 0 -> <<>>
    [] Len(b) = 1 -> <<b[1] \div 4, (b[1] % 4) * 16, 64, 64>>
    [] Len(b) = 2 -> <<b[1] \div 4, (b[1] % 4) * 16 + b[2] \div 16,
                       (b[2] % 16) * 4, 64>>
    [] OTHER -> <<b[1] \div 4, (b[1] % 4) * 16 + b[2] \div 16,
                  (b[2] % 16) * 4 + b[3] \div 64, b[3] % 64>>
                  \o Base64ToString(SubSeq(b, 4, Len(b)))

\* crypto.createHash('sha256').update(data).digest('hex'): a digest that
\* depends on the hashed data alone, taken to be collision-free.
sha256(data) == [sha256of |-> data]

\* A FileChange whose checksum is taken over the encoded content.
FileChangeHashingContent(relativePath, p, content) ==
  LET text == IF IsBinary(p) THEN Base64ToString(content) ELSE Utf8ToString(content)
  IN [path |-> relativePath,
      content |-> text,
      checksum |-> sha256(text),
      encoding |-> IF IsBinary(p) THEN "base64" ELSE "utf-8"]

\* dev.ts:168-176 and 331-339: the FileChange of a file with relative path
\* relativePath, classified by the extension of p, with bytes `content`.
FileChange(relativePath, p, content) ==
  [path |-> relativePath,
   content |-> IF IsBinary(p) THEN Base64ToString(content) ELSE Utf8ToString(content),
   checksum |-> sha256(content),
   encoding |-> IF IsBinary(p) THEN "base64" ELSE "utf-8"]

\* The theme root the model's absolute paths start with.
absoluteThemePath == <<"/", "t", ".", "d">>

\* path.join(dir, name).
join(dir, name) == dir \o <<"/">> \o name

\* collectThemeFiles, dev.ts:330-339: classified by path.extname(entry.name).
CollectFileChange(relativePath, name, content) ==
  FileChange(relativePath, name, content)

\* The timer callback, dev.ts:167-176: classified by path.extname(filePath),
\* filePath being the absolute path the watcher reported.
FlushFileChange(relativePath, filePath, content) ==
  FileChange(relativePath, filePath, content)

\* The file names FileChanges are built from.
Names ==
  { <<"a", ".", "p", "n", "g">>, <<"a", ".", "P", "N", "G">>,
    <<"a", ".", "c", "s", "s">>, <<"a", ".", "t", "t", "f">>,
    <<"a", ".", "w", "o", "f", "f", "2">>, <<"a", ".", "p", "n", "g", ".", "t">>,
    <<"p", "n", "g">>, <<".", "p", "n", "g">>, <<"a", ".">> }

\* The bytes file contents are made of: 'A', the two bytes of U+00E9, and 0xFF.
ByteAlphabet == {65, 195, 169, 255}

RECURSIVE SeqsUpTo(_, _)
SeqsUpTo(S, n) ==
  IF n = 0 THEN {<<>>}
  ELSE LET shorter == SeqsUpTo(S, n - 1)
       IN shorter \cup {Append(q, x) : q \in shorter, x \in S}

ByteSeqs == SeqsUpTo(ByteAlphabet, MaxBytes)

\* A file of the theme directory, by name and content.
BuildInit ==
  /\ EngineInit
  /\ NoWalk
  /\ fname \in Names
  /\ fbytes \in ByteSeqs
  /\ built = <<>>
  /\ NothingReported

\* The file is read and its FileChange is built, once as the initial sync
\* builds it and once as a debounced flush does.
Build ==
  /\ built = <<>>
  /\ built' = << CollectFileChange(fname, fname, fbytes),
                 FlushFileChange(fname, join(absoluteThemePath, fname), fbytes) >>
  /\ UNCHANGED <<engineVars, walkVars, fname, fbytes, reportVars>>

BuildNext == Build

BuildSpec == BuildInit /\ [][BuildNext]_vars

\* ------------------------------------------------- collecting the theme files
\* An entry of the theme directory: the names of the directories that lead to
\* it from the theme root, its own name, what it is (a regular file, a
\* directory, or anything else, such as a symbolic link) and a file's bytes.
node_modules == <<"n", "o", "d", "e", "_", "m", "o", "d", "u", "l", "e", "s">>
dist == <<"d", "i", "s", "t">>

\* The entry names of the model's theme directories.
EntryNames ==
  { <<"s">>, <<"a", ".", "l", "o", "g">>, <<".", "g">>, node_modules, dist,
    <<"d", "i", "s", "t", "2">> }

EntryKinds == {"file", "dir", "other"}

\* A collectThemeFiles that skips only the names starting with '.'.
SkippedDotOnly(name) == name[1] = "."

\* dev.ts:323: entry.name.startsWith('.') || entry.name === 'node_modules'
\*             || entry.name === 'dist'
Skipped(name) == name[1] = "." \/ name = node_modules \/ name = dist

\* path.relative(themePath, fullPath) of the entry reached through the
\* directories and the name in `comps`.
RECURSIVE relative(_)
relative(comps) ==
  IF Len(comps) = 1 THEN comps[1]
  ELSE join(relative(SubSeq(comps, 1, Len(comps) - 1)), comps[Len(comps)])

\* fs.readdir(dir, { withFileTypes: true }), dev.ts:316.
readdir(t, dir) == {e \in t : e.dir = dir}

\* walk(dir), dev.ts:315-342, over the entries of dir still to visit (`rest`),
\* in the order readdir gave them.
RECURSIVE walk(_, _, _)
walk(t, dir, rest) ==
  IF rest = {} THEN <<>>
  ELSE LET entry == CHOOSE e \in rest : TRUE
           sub == Append(dir, entry.name)
           found ==
             IF Skipped(entry.name) THEN <<>>
             ELSE IF entry.kind = "dir" THEN walk(t, sub, readdir(t, sub))
             ELSE IF entry.kind = "file"
                  THEN <<CollectFileChange(relative(sub), entry.name, entry.content)>>
             ELSE <<>>
       IN found \o walk(t, dir, rest \ {entry})

\* collectThemeFiles, dev.ts:312-346.
collectThemeFiles(t) == walk(t, <<>>, readdir(t, <<>>))

\* The directories of the theme directory: its root and its "dir" entries.
Directories == {<<>>} \cup {Append(e.dir, e.name) : e \in {x \in tree : x.kind = "dir"}}

\* The theme directory the developer has made, before the command collects
\* it: one more entry in one of its directories.
Create(d, n, k) ==
  /\ ~collected
  /\ Cardinality(tree) < MaxEntries
  /\ d \in Directories
  /\ \A e \in tree : ~(e.dir = d /\ e.name = n)
  /\ tree' = tree \cup {[dir |-> d, name |-> n, kind |-> k,
                         content |-> IF k = "file" THEN <<65>> ELSE <<>>]}
  /\ UNCHANGED <<engineVars, files, collected, buildVars, reportVars>>

\* const files = await collectThemeFiles(absoluteThemePath), dev.ts:99.
CollectThemeFiles ==
  /\ ~collected
  /\ files' = collectThemeFiles(tree)
  /\ collected' = TRUE
  /\ UNCHANGED <<engineVars, tree, buildVars, reportVars>>

Creates == \E d \in Directories, n \in EntryNames, k \in EntryKinds : Create(d, n, k)

\* The `ignored` option of chokidar.watch, dev.ts:135-140, applied to a path
\* the watcher meets: the watched root joined with the names below it.
\* /(^|[\/\\])\../ : a '.' at the start or after a separator, followed by a
\* character.
IgnoredDot(s) ==
  \E i \in 1..(Len(s) - 1) : s[i] = "." /\ (i = 1 \/ s[i - 1] \in {"/", "\\"})

\* How the installed chokidar reads a string of `ignored` (the dependency's
\* version is not pinned by the sources): as a glob whose trailing '/**' also
\* matches the directory itself, as a glob whose trailing '/**' needs a name
\* below the directory, or as a path to compare the whole path with.
GlobReadings == {"glob", "glob_below", "exact"}

EndsWithLog(name) ==
  /\ Len(name) >= 4
  /\ SubSeq(name, Len(name) - 3, Len(name)) = <<".", "l", "o", "g">>

\* '**/node_modules/**', '**/dist/**' and '**/*.log' applied to the path made
\* of the names `comps` below the root.
IgnoredGlob(g, comps) ==
  CASE g = "glob" ->
         \/ \E i \in 1..Len(comps) : comps[i] \in {node_modules, dist}
         \/ EndsWithLog(comps[Len(comps)])
    [] g = "glob_below" ->
         \/ \E i \in 1..(Len(comps) - 1) : comps[i] \in {node_modules, dist}
         \/ EndsWithLog(comps[Len(comps)])
    [] OTHER -> FALSE

ignored(g, root, comps) ==
  IgnoredDot(join(root, relative(comps))) \/ IgnoredGlob(g, comps)

\* The watcher observes the entry at `comps` below the root: neither it nor a
\* directory that leads to it is ignored.
Observed(g, root, comps) ==
  \A n \in 1..Len(comps) : ~ignored(g, root, SubSeq(comps, 1, n))

WalkInit == EngineInit /\ NoWalk /\ NoBuild /\ NothingReported

WalkNext == Creates \/ CollectThemeFiles

WalkSpec == WalkInit /\ [][WalkNext]_vars

\* ------------------------------------------------- reporting a result
\* What settles and is reported: the SyncResult of the initial batch or of a
\* flush (its success flag and the lengths of its synced and errors lists), or
\* the disconnect request.
ReportInputs ==
  [op : {"initial", "flush"}, outcome : {"ok", "inband"},
   synced : 0..MaxListed, errors : 0..MaxListed]
  \cup [op : {"disconnect"}, outcome : DisconnectOutcomes, synced : {0}, errors : {0}]

\* A report: the spinner or console call made ("succeed", "warn", "log"), its
\* text, the count of synced files and the count of errors it states (-1 when
\* it states none) and the number of error lines that follow it.
NoReport == [level |-> "none", text |-> "none", synced |-> -1, errors |-> -1, lines |-> 0]

\* dev.ts:102-107: spinner.succeed(`Synced ${syncResult.synced.length} files`),
\* else spinner.warn(`Synced with ${syncResult.errors.length} errors`) and one
\* line per error.
InitialSyncReport(r) ==
  IF r.outcome = "ok"
  THEN [level |-> "succeed", text |-> "Synced n files", synced |-> r.synced,
        errors |-> -1, lines |-> 0]
  ELSE [level |-> "warn", text |-> "Synced with n errors", synced |-> -1,
        errors |-> r.errors, lines |-> r.errors]

\* dev.ts:180-186: `${icon} ${relativePath} synced`, else `x ${relativePath}
\* failed` and one line per error.
FlushReport(r) ==
  IF r.outcome = "ok"
  THEN [level |-> "log", text |-> FlushLog("ok"), synced |-> -1, errors |-> -1,
        lines |-> 0]
  ELSE [level |-> "log", text |-> FlushLog("inband"), synced |-> -1, errors |-> -1,
        lines |-> r.errors]

\* dev.ts:298-309: spinner.succeed('Disconnected') after the awaited fetch,
\* spinner.warn('Failed to disconnect cleanly') in the catch.
DisconnectReport(r) ==
  [level |-> IF r.outcome = "net_err" THEN "warn" ELSE "succeed",
   text |-> DisconnectLog(r.outcome), synced |-> -1, errors |-> -1, lines |-> 0]

ReportInit ==
  /\ EngineInit
  /\ NoWalk
  /\ NoBuild
  /\ result \in ReportInputs
  /\ report = NoReport

\* The result is handled and reported.
Report ==
  /\ report = NoReport
  /\ report' = CASE result.op = "initial" -> InitialSyncReport(result)
                 [] result.op = "flush" -> FlushReport(result)
                 [] OTHER -> DisconnectReport(result)
  /\ UNCHANGED <<engineVars, walkVars, buildVars, result>>

ReportNext == Report

ReportSpec == ReportInit /\ [][ReportNext]_vars

\* ============================================================== claims
CleanupStarted == \E w \in Cleaners : cl[w] # "idle"

ReadsOf(p) == {r \in reads : r.path = p}
PushesOf(p) == {x \in pushes : x.path = p}

\* C1: when shutdown is triggered two or more times after a session was
\* established, at most one disconnect request is sent and no cleanup
\* invocation throws.
C1_ShutdownIdempotent ==
  (session # "null" /\ Cardinality({w \in Cleaners : cl[w] # "idle"}) >= 2)
    => (disconnectsSent <= 1 /\ \A w \in Cleaners : cl[w] # "threw")

\* C2: whenever the process has exited after connect returned a session, a
\* disconnect request has been sent before the exit.
C2_DisconnectOnEveryExit ==
  (exitCode # -1 /\ session # "null") => disconnectsSent >= 1

\* C3: the events of one quiet window of a path end in exactly one flush (one
\* file read, at most one push); the flush runs only once DEBOUNCE_MS have
\* passed since the last event; the pushed content is what the flush read on
\* disk, never older than the content at the last event.
C3_Coalesced ==
  \A p \in Paths :
    /\ flushes[p] + (IF pendingChanges[p] # 0 THEN 1 ELSE 0) = bursts[p]
    /\ pushesSent[p] <= flushes[p]
    /\ \A x \in PushesOf(p) : x.ver >= x.ev /\ x.ver <= disk[p]

C3_FlushStep ==
  \A p \in Paths :
    /\ flushes'[p] # flushes[p] =>
         /\ flushes'[p] = flushes[p] + 1
         /\ sinceEvt[p] >= DEBOUNCE_MS
         /\ Cardinality(ReadsOf(p)') = Cardinality(ReadsOf(p)) + 1
    /\ pushesSent'[p] # pushesSent[p] =>
         \E x \in pushes' \ pushes : x.path = p /\ x.ver = disk[p]

C3_DebounceCoalescing == [](C3_Coalesced) /\ [][C3_FlushStep]_vars

\* C3 witness: two events on one path were coalesced into one flush, whose push
\* carries the second save's content.
C3_Witness ==
  \E x \in pushes :
    /\ evCount[x.path] = 2
    /\ bursts[x.path] = 1
    /\ flushes[x.path] = 1
    /\ x.id = 2
    /\ x.ver = 2

\* C4: the remote never receives a push for a path carrying older content after
\* one carrying newer content.
C4_PerPathOrdering == [][\A p \in Paths : remote'[p] >= remote[p]]_vars

\* C5: once cleanup has closed the watcher (shutdown began in the Watching
\* state, where debounce timers may be pending), no debounced flush runs, and
\* once the disconnect request has been sent no per-change sync request is
\* issued.
C5_TimersCancelledAtShutdown ==
  [][/\ (CleanupStarted /\ watcher = "closed") => flushes' = flushes
     /\ (disconnectsSent > 0 /\ watcher = "closed") => pushesSent' = pushesSent]_vars

\* C6: every flush that has ended logged one line, and the end of a flush,
\* whatever its outcome, neither ends the process nor touches the watcher or
\* devCommand's position.
C6_EveryFlushLogged ==
  \A p \in Paths :
    nlog[p] + Cardinality(ReadsOf(p)) + Cardinality(PushesOf(p)) = flushes[p]

C6_FlushEndStep ==
  (\E p \in Paths : nlog'[p] # nlog[p]) =>
    /\ exitCode' = -1
    /\ uncaught' = "none"
    /\ watcher' = watcher
    /\ pc' = pc
    /\ pendingChanges' = pendingChanges
    /\ timers' = timers

C6_PerChangeFailuresNonFatal == [](C6_EveryFlushLogged) /\ [][C6_FlushEndStep]_vars

\* C6 witness: a flush of a path failed, and a later event on the same path led
\* to a new push, with the process still running and the watcher open.
C6_Witness ==
  \E x \in pushes :
    /\ log = "read error"
    /\ nlog[x.path] = 1
    /\ flushes[x.path] = 2
    /\ exitCode = -1
    /\ watcher = "open"

\* C7: a connect request that fails is fatal and leaves nothing to clean up:
\* the error carries the remote's message when there is one and a status-based
\* one otherwise, the process has exited with code 1, connect was sent once, and
\* no sync, validate or disconnect request was sent and no watcher started.
C7_ConnectFailureFatal ==
  /\ connectsSent <= 1
  /\ (reply.step = "connect" /\ reply.outcome # "ok") =>
       /\ exitCode = 1
       /\ session = "null"
       /\ watcher = "null"
       /\ error.step = "connect"
       /\ reply.outcome = "json_error" => error.msg = "remote message"
       /\ reply.outcome \in {"json_noerror", "text_status", "empty_status"} =>
            error.msg \in {"status text", "Connection failed: status"}
       /\ connectsSent = 1
       /\ syncsSent = 0
       /\ validatesSent = 0
       /\ disconnectsSent = 0
       /\ \A p \in Paths : pushesSent[p] = 0 /\ flushes[p] = 0

\* C7 witness: the connect request came back with a non-success status and a
\* JSON error; the process has exited.
C7_Witness ==
  /\ reply = [step |-> "connect", outcome |-> "json_error"]
  /\ error.msg = "remote message"
  /\ exitCode = 1

TransportFailures == {"http_err", "net_err", "malformed"}

\* The last response devCommand handled was that of `step`, with an outcome in S.
Handled(step, S) == reply.step = step /\ reply.outcome \in S

C10_StartupOrder ==
  /\ connectsSent <= 1 /\ syncsSent <= 1 /\ validatesSent <= 1
  /\ syncsSent = 1 => connectsSent = 1 /\ session # "null"
  /\ (syncsSent = 1 /\ reply.step = "connect") => reply.outcome = "ok"
  /\ validatesSent = 1 => syncsSent = 1 /\ reply.step \in {"sync", "validate"}
  /\ (validatesSent = 1 /\ reply.step = "sync") => reply.outcome \in {"ok", "inband"}
  /\ watcher # "null" => validatesSent = 1 /\ Handled("validate", {"valid", "invalid"})
  /\ \A p \in Paths : pushesSent[p] > 0 \/ flushes[p] > 0 => watcher # "null"
  /\ reply.step = "sync" => syncsSent = 1
  /\ reply.step = "validate" => validatesSent = 1

\* C10 witness: the whole startup sequence has run and the engine is watching.
C10_Witness ==
  /\ pc = "watching"
  /\ watcher = "open"
  /\ connectsSent = 1
  /\ syncsSent = 1
  /\ validatesSent = 1
  /\ reply = [step |-> "validate", outcome |-> "valid"]

\* The regular files of the theme directory none of whose path components is
\* excluded (a name starting with '.', node_modules, dist).
Excluded(n) == n[1] = "." \/ n = node_modules \/ n = dist

SyncedEntries ==
  {e \in tree : /\ e.kind = "file"
                /\ ~Excluded(e.name)
                /\ \A i \in 1..Len(e.dir) : ~Excluded(e.dir[i])}

\* C11: the batch collectThemeFiles returns holds exactly one FileChange per
\* regular file outside the excluded locations, at any depth: none is omitted,
\* nothing else is included and no two FileChanges have the same path.
C11_InitialBatchComplete ==
  collected =>
    /\ Len(files) = Cardinality(SyncedEntries)
    /\ {files[i].path : i \in 1..Len(files)} =
         {relative(Append(e.dir, e.name)) : e \in SyncedEntries}
    /\ \A i \in 1..Len(files), j \in 1..Len(files) :
         files[i].path = files[j].path => i = j

\* C11 witness: a directory with a file two levels down and a file in an
\* excluded location was collected; the batch holds the first one only.
C11_Witness ==
  /\ collected
  /\ Len(files) = 1
  /\ \E e \in tree : e.kind = "file" /\ Len(e.dir) = 2 /\ e \in SyncedEntries
  /\ \E e \in tree : e.kind = "file" /\ e \notin SyncedEntries

TimersOf(p) == {t \in timers : t.path = p}

\* C12: handling an event for a path leaves every other path's pending timer
\* (its handle, its remaining delay, its entry in pendingChanges) and its
\* flushes as they were.
C12_PathIndependence ==
  [][\A a \in Paths :
       evCount'[a] # evCount[a] =>
         \A b \in Paths \ {a} :
           /\ pendingChanges'[b] = pendingChanges[b]
           /\ TimersOf(b)' = TimersOf(b)
           /\ sinceEvt'[b] = sinceEvt[b]
           /\ flushes'[b] = flushes[b]
           /\ ReadsOf(b)' = ReadsOf(b)]_vars

\* C12 witness: an event for one path was handled while another path's timer
\* was part-way through its delay, and that timer is still armed and as far on.
C12_Witness ==
  \E ta \in timers, tb \in timers :
    /\ ta.path # tb.path
    /\ ta.left = DEBOUNCE_MS
    /\ tb.left < DEBOUNCE_MS
    /\ pendingChanges[tb.path] = tb.id
    /\ sinceEvt[ta.path] = 0
    /\ sinceEvt[tb.path] > 0

\* The names of Names whose extension, lower-cased, is on the binary allow-list:
\* a.png, a.PNG and a.woff2.
BinaryNames ==
  { <<"a", ".", "p", "n", "g">>, <<"a", ".", "P", "N", "G">>,
    <<"a", ".", "w", "o", "f", "f", "2">> }

\* C13: the encoding of a FileChange is base64 exactly for the names whose
\* lower-cased extension is on the allow-list and utf-8 otherwise, whatever the
\* bytes, and the initial sync and a debounced flush classify a file alike.
C13_EncodingByExtension ==
  built # <<>> =>
    /\ built[1].encoding = (IF fname \in BinaryNames THEN "base64" ELSE "utf-8")
    /\ built[2].encoding = built[1].encoding
    /\ built[2].content = built[1].content

\* C13 witness: a file with an upper-case binary extension and text bytes was
\* classified base64.
C13_Witness ==
  /\ built # <<>>
  /\ fname = <<"a", ".", "P", "N", "G">>
  /\ fbytes = <<65>>
  /\ built[1].encoding = "base64"
  /\ built[2].encoding = "base64"

\* C14: the checksum of every FileChange, from the initial sync or from a
\* flush, is the digest of the raw bytes read, whatever the encoding chosen.
C14_ChecksumOverRawBytes ==
  built # <<>> =>
    /\ built[1].checksum = sha256(fbytes)
    /\ built[2].checksum = sha256(fbytes)

\* C14 witness: a base64-encoded FileChange whose content differs from the
\* bytes it was built from.
C14_Witness ==
  /\ built # <<>>
  /\ built[2].encoding = "base64"
  /\ built[2].content # fbytes
  /\ fbytes # <<>>

\* What the remote gets back from a FileChange's content: the UTF-8 bytes of
\* the text, or the bytes the base64 digits stand for.
RECURSIVE Utf8Bytes(_)
Utf8Bytes(cps) ==
  IF cps = <<>> THEN <<>>
  ELSE LET c == cps[1]
           head == IF c < 128 THEN <<c>>
                   ELSE IF c < 2048 THEN <<192 + c \div 64, 128 + (c % 64)>>
                   ELSE <<224 + c \div 4096, 128 + ((c \div 64) % 64), 128 + (c % 64)>>
       IN head \o Utf8Bytes(Tail(cps))

RECURSIVE Base64Bytes(_)
Base64Bytes(d) ==
  IF Len(d) < 4 THEN <<>>
  ELSE LET head ==
             IF d[3] = 64 THEN <<d[1] * 4 + d[2] \div 16>>
             ELSE IF d[4] = 64
                  THEN <<d[1] * 4 + d[2] \div 16, (d[2] % 16) * 16 + d[3] \div 4>>
             ELSE <<d[1] * 4 + d[2] \div 16, (d[2] % 16) * 16 + d[3] \div 4,
                    (d[3] % 4) * 64 + d[4]>>
       IN head \o Base64Bytes(SubSeq(d, 5, Len(d)))

DecodedBytes(fc) ==
  IF fc.encoding = "base64" THEN Base64Bytes(fc.content) ELSE Utf8Bytes(fc.content)

\* C15: decoding the content of a FileChange by its encoding field gives back
\* the raw bytes of the file, whose digest is the checksum.
C15_DecodedContentMatchesChecksum ==
  built # <<>> =>
    \A i \in 1..2 :
      /\ DecodedBytes(built[i]) = fbytes
      /\ sha256(DecodedBytes(built[i])) = built[i].checksum

\* With base64 the content always decodes to the raw bytes.
C15_Base64RoundTrips ==
  (built # <<>> /\ built[1].encoding = "base64") => DecodedBytes(built[1]) = fbytes

\* C16: once SIGINT or SIGTERM has been delivered the process eventually
\* terminates, whatever the engine was doing and whatever the outcome of the
\* disconnect request; the end of disconnectSession never throws: it is followed
\* at once by its caller's process.exit.
C16_DisconnectNeverThrows ==
  \A w \in Cleaners :
    (cl[w] = "disconnecting" /\ cl'[w] # cl[w]) =>
      /\ cl'[w] = "done"
      /\ exitCode' = ExitCodeOf(w)
      /\ uncaught' = uncaught

C16_SignalTerminates ==
  /\ \A s \in Signals : (cl[s] # "idle") ~> (exitCode # -1)
  /\ [][C16_DisconnectNeverThrows]_vars

\* C16 witness: a signal arrived with a push in flight, the disconnect request
\* failed at network level, and the process has exited with code 0.
C16_Witness ==
  \E s \in Signals :
    /\ cl[s] = "done"
    /\ pushes # {}
    /\ log = "Failed to disconnect cleanly"
    /\ exitCode = 0

\* C17: a run in which a fatal failure reached devCommand's catch block never
\* exits with code 0, and a run that exits with code 0 was ended by a signal.
C17_FatalNeverExitsZero ==
  /\ (exitCode # -1 /\ error.step # "none") => exitCode # 0
  /\ exitCode = 0 => \E s \in Signals : cl[s] = "done"

\* C18: when manifest.json is missing or inaccessible the process has exited
\* with code 1 straight from the check: nothing reached the catch block, no
\* cleanup ran, there was no prompt, no session, no request and no watcher.
C18_MissingManifestFailsFirst ==
  (reply.step = "manifest" /\ ~fileExists(reply.outcome)) =>
    /\ exitCode = 1
    /\ pc = "start"
    /\ error = NoError
    /\ uncaught = "none"
    /\ session = "null"
    /\ watcher = "null"
    /\ connectsSent = 0
    /\ syncsSent = 0
    /\ validatesSent = 0
    /\ disconnectsSent = 0
    /\ \A p \in Paths : pushesSent[p] = 0

\* C18 witness: the manifest was found inaccessible and the process has exited.
C18_Witness ==
  /\ reply = [step |-> "manifest", outcome |-> "inaccessible"]
  /\ exitCode = 1
  /\ connectsSent = 0

\* C19: a SyncResult with success = false for the initial batch is not fatal:
\* the step that handles it reaches neither the catch block nor an exit and
\* issues the validate request, and while it is the last result handled the
\* engine is at the validate step with no error caught.
C19_InbandStep ==
  (reply' # reply /\ reply' = [step |-> "sync", outcome |-> "inband"]) =>
    /\ pc' = "validating"
    /\ validatesSent' = validatesSent + 1
    /\ exitCode' = exitCode
    /\ error' = error
    /\ cl' = cl
    /\ syncsSent' = syncsSent

C19_AtValidate ==
  Handled("sync", {"inband"}) =>
    /\ pc = "validating"
    /\ error.step = "none"
    /\ cl["catch"] = "idle"
    /\ validatesSent = 1

C20_NoRetries ==
  /\ connectsSent <= 1
  /\ syncsSent <= 1
  /\ \A p \in Paths : pushesSent[p] + Cardinality(ReadsOf(p)) <= flushes[p]
  /\ syncsSent + SumTo(pushesSent, MaxPaths) <= 1 + SumTo(flushes, MaxPaths)

\* C20 witness: the only flush so far issued one sync request, which failed at
\* transport level, and nothing is in flight or pending for it.
C20_Witness ==
  \E p \in Paths :
    /\ flushes[p] = 1
    /\ pushesSent[p] = 1
    /\ nlog[p] = 1
    /\ log = "read error"
    /\ PushesOf(p) = {}
    /\ pendingChanges[p] = 0
    /\ \A q \in Paths \ {p} : flushes[q] = 0
    /\ syncsSent = 1

\* C21: the report of a partly accepted batch (success = false, k paths synced,
\* m errors) states both k and m and is not a failure report.
C21_PartialBatchReported ==
  (/\ report # NoReport
   /\ result.op \in {"initial", "flush"}
   /\ result.outcome = "inband"
   /\ result.synced > 0
   /\ result.errors > 0) =>
    /\ report.synced = result.synced
    /\ report.errors = result.errors \/ report.lines = result.errors
    /\ report.level # "fail"

\* C23: every failed disconnect request (a network error or a non-success
\* status) is reported as a warning, and 'Disconnected' is reported only when
\* the remote acknowledged the disconnect.
C23_FailedDisconnectWarns ==
  (report # NoReport /\ result.op = "disconnect") =>
    /\ result.outcome # "ok" => report.level = "warn"
    /\ report.text = "Disconnected" => result.outcome = "ok"

\* C22: once a signal handler has started cleanup, the startup sequence does
\* not continue: no sync or validate request is issued, the browser-open step
\* is not entered, no watcher is started and no debounce timer is created.
C22_CancellationStopsStartup ==
  [][(\E s \in Signals : cl[s] # "idle") =>
       /\ syncsSent' = syncsSent
       /\ validatesSent' = validatesSent
       /\ pc' = "opening" => pc = "opening"
       /\ watcher = "null" => watcher' = "null"
       /\ evCount' = evCount]_vars

\* C24: once a disconnect request has been issued the process holds no token.
C24_TokenClearedByDisconnect ==
  disconnectsSent > 0 => session = "null"

\* C25: every path has at most one armed timer, and an entry in pendingChanges
\* exactly when it has one (the entry being that timer's handle); an event
\* replaces the path's timer by a new one of DEBOUNCE_MS, and the start of a
\* flush removes the entry in the step that starts the file read.
C25_OneTimerPerEntry ==
  \A p \in Paths :
    /\ Cardinality(TimersOf(p)) <= 1
    /\ pendingChanges[p] # 0 <=> TimersOf(p) # {}
    /\ \A t \in TimersOf(p) : t.id = pendingChanges[p]

C25_EntryStep ==
  \A p \in Paths :
    /\ evCount'[p] # evCount[p] =>
         /\ pendingChanges'[p] = evCount'[p]
         /\ pendingChanges'[p] # pendingChanges[p]
         /\ \E t \in timers' :
              /\ TimersOf(p)' = {t}
              /\ t.id = evCount'[p]
              /\ t.left = DEBOUNCE_MS
    /\ flushes'[p] # flushes[p] =>
         /\ pendingChanges[p] # 0
         /\ pendingChanges'[p] = 0
         /\ TimersOf(p)' = {}
         /\ \E r \in reads' \ reads : r.path = p /\ r.id = pendingChanges[p]
    /\ pendingChanges'[p] # pendingChanges[p] =>
         evCount'[p] # evCount[p] \/ flushes'[p] # flushes[p]

C25_PendingChangeTable == [](C25_OneTimerPerEntry) /\ [][C25_EntryStep]_vars

\* C25 witness: a second event inside the window replaced the path's timer, and
\* the one timer armed for the path is the second one.
C25_Witness ==
  \E t \in timers :
    /\ evCount[t.path] = 2
    /\ bursts[t.path] = 1
    /\ TimersOf(t.path) = {t}
    /\ t.id = 2
    /\ pendingChanges[t.path] = 2
    /\ flushes[t.path] = 0

\* C27: the line logged at the end of a flush tells the three failures apart:
\* 'read error' is logged exactly when the file read failed, never when the
\* push did.
C27_FailureKindsDistinct ==
  [][\A p \in Paths :
       nlog'[p] # nlog[p] =>
         (log' = "read error" <=> ReadsOf(p)' # ReadsOf(p))]_vars

\* C30: a watcher exists only with a session, a timer callback runs (and its
\* read and push are in flight) only with a session, and timers are created
\* only by the events of a started watcher.
C30_SessionHeld ==
  /\ watcher # "null" => session # "null"
  /\ (timers # {} \/ reads # {} \/ pushes # {}) => session # "null"
  /\ \A p \in Paths :
       (evCount[p] > 0 \/ pendingChanges[p] # 0 \/ flushes[p] > 0) =>
         watcher # "null" /\ session # "null"

C30_TimerStep ==
  \A p \in Paths :
    /\ {t.id : t \in TimersOf(p)'} \ {t.id : t \in TimersOf(p)} # {} =>
         /\ evCount'[p] = evCount[p] + 1
         /\ watcher = "open"
    /\ (flushes'[p] # flushes[p] \/ pushesSent'[p] # pushesSent[p]) =>
         session # "null"

C30_TokenAvailableAtFlush == [](C30_SessionHeld) /\ [][C30_TimerStep]_vars

\* C30 witness: a timer callback has issued its push with the session's token
\* while the watcher is open.
C30_Witness ==
  \E x \in pushes :
    /\ watcher = "open"
    /\ session = "token"
    /\ pushesSent[x.path] = 1
    /\ flushes[x.path] = 1

\* C26: the events of one window of a path, a removal among them, end in one
\* timer callback; the 'unlink' handler sends no request and leaves the
\* path's timer alone; a callback that finds the file removed logs and sends
\* nothing, and every push carries the content of a file that is on disk.
C26_OneFlushPerWindow ==
  \A p \in Paths :
    /\ flushes[p] + (IF pendingChanges[p] # 0 THEN 1 ELSE 0) = bursts[p]
    /\ pushesSent[p] <= flushes[p]

C26_RemovalStep ==
  \A p \in Paths :
    /\ (gone[p] = "pending" /\ gone'[p] = "yes") =>
         /\ sentVars' = sentVars
         /\ pushes' = pushes
         /\ timers' = timers
         /\ pendingChanges' = pendingChanges
         /\ flushes' = flushes
    /\ pushesSent'[p] # pushesSent[p] =>
         /\ gone[p] = "no"
         /\ \E x \in pushes' \ pushes : x.path = p /\ x.ver = disk[p]
    /\ (gone[p] # "no" /\ ReadsOf(p)' # ReadsOf(p) /\ flushes'[p] = flushes[p]) =>
         /\ pushes' = pushes
         /\ nlog'[p] = nlog[p] + 1
         /\ log' = "read error"

C26_RemovalCollapses == [](C26_OneFlushPerWindow) /\ [][C26_RemovalStep]_vars

\* C26 witness: a file was saved twice and removed inside one window; the one
\* timer callback of the window has run, found no file and sent nothing.
C26_Witness ==
  \E p \in Paths :
    /\ evCount[p] = 2
    /\ bursts[p] = 1
    /\ gone[p] = "yes"
    /\ flushes[p] = 1
    /\ nlog[p] = 1
    /\ log = "read error"
    /\ pushesSent[p] = 0
    /\ remote[p] = 0

\* Nothing is left for the engine to do for path p: the watcher has no event of
\* p to report and no timer, read or push of p is pending.
Settled(p) ==
  /\ ~dirty[p]
  /\ pendingChanges[p] = 0
  /\ TimersOf(p) = {}
  /\ ReadsOf(p) = {}
  /\ PushesOf(p) = {}

\* C29: whenever the engine is watching and nothing is left for it to do for a
\* file saved since the initial collection read it, a push of that file has
\* been attempted.
C29_NoEditLostAcrossStartup ==
  \A p \in Paths :
    (/\ pc = "watching"
     /\ watcher = "open"
     /\ Running
     /\ gone[p] = "no"
     /\ batch[p] >= 0
     /\ disk[p] > batch[p]
     /\ Settled(p)) => flushes[p] > 0

\* Where the theme root can be: the model's root, and a root below a
\* dot-directory.
ThemeRoots == {absoluteThemePath, <<"/", ".", "h", "/", "t">>}

BatchPaths == {files[i].path : i \in 1..Len(files)}

\* C28: wherever the theme root is, and for one reading of the watcher's
\* patterns at least, a regular file below the root is in the initial batch
\* exactly when the watcher observes it.
C28_SameExclusionPolicy ==
  collected =>
    \E g \in GlobReadings :
      \A root \in ThemeRoots :
        \A e \in {x \in tree : x.kind = "file"} :
          relative(Append(e.dir, e.name)) \in BatchPaths
            <=> Observed(g, root, Append(e.dir, e.name))
====
